---------------------------- MODULE Spec2Model ----------------------------
(***************************************************************************)
(* Model of get-cost-data-to-database.py: the cost-ingestion pipeline.     *)
(*                                                                         *)
(* One worker task per configured account runs process_account; all tasks  *)
(* use the module-level connection `conn` and cursor `cursor`.  A step of  *)
(* the model is one call on that connection or cursor (execute, one item   *)
(* of an executemany, fetchone, commit, rollback), one attempt of the      *)
(* remote billing call, or a stretch of task-local code.  The store is     *)
(* PostgreSQL reached through psycopg2: one transaction per connection,    *)
(* statements of every task run in it and see its uncommitted rows, a      *)
(* failed statement aborts it, and the cursor holds the result of the last *)
(* statement executed on it, whichever task executed it.                   *)
(***************************************************************************)
EXTENDS Integers, Sequences, FiniteSets, TLC

(***************************************************************************)
(* Bounds of the model.                                                    *)
(***************************************************************************)
\* how many store statements may fail for reasons outside the program
MaxFaults == 1
\* execution dates are drawn from the years FirstYear .. FirstYear + NumYears - 1
FirstYear == 2023
NumYears == 2

\* retries = 3
retries == 3

\* the two executions of the script that the idempotence property compares
Runs == {1, 2}

\* aws_accounts: the configured AWS CLI profile names
aws_accounts == <<"account-1", "account-2">>

Accounts == {aws_accounts[i] : i \in 1..Len(aws_accounts)}

(***************************************************************************)
(* Dates and their text forms.  A text is a sequence of one-character      *)
(* strings, so that formatting and parsing are computed, not assumed.      *)
(***************************************************************************)
Digits == <<"0", "1", "2", "3", "4", "5", "6", "7", "8", "9">>

DigitVal(c) == (CHOOSE k \in 1..10 : Digits[k] = c) - 1

\* n written with exactly w digits, zero padded (n < 10^w)
RECURSIVE Pad(_, _)
Pad(n, w) == IF w = 0 THEN <<>> ELSE Append(Pad(n \div 10, w - 1), Digits[(n % 10) + 1])

\* the number a sequence of digit characters denotes
RECURSIVE Num(_)
Num(s) == IF s = <<>> THEN 0
          ELSE 10 * Num(SubSeq(s, 1, Len(s) - 1)) + DigitVal(s[Len(s)])

IsLeap(y) == (y % 4 = 0 /\ y % 100 # 0) \/ y % 400 = 0

DaysInMonth(y, m) ==
    IF m = 2 THEN (IF IsLeap(y) THEN 29 ELSE 28)
    ELSE IF m \in {4, 6, 9, 11} THEN 30 ELSE 31

Date(y, m, d) == [year |-> y, month |-> m, day |-> d]

\* date.replace(day=1)
replace_day1(dt) == [dt EXCEPT !.day = 1]

\* date - timedelta(days=1)
minus_one_day(dt) ==
    IF dt.day > 1 THEN [dt EXCEPT !.day = dt.day - 1]
    ELSE IF dt.month > 1
         THEN Date(dt.year, dt.month - 1, DaysInMonth(dt.year, dt.month - 1))
         ELSE Date(dt.year - 1, 12, 31)

\* strftime("%Y-%m-%d")
strftime_Ymd(dt) == Pad(dt.year, 4) \o <<"-">> \o Pad(dt.month, 2) \o <<"-">> \o Pad(dt.day, 2)

\* datetime.strptime(s, "%Y-%m-%d")
strptime_Ymd(s) == Date(Num(SubSeq(s, 1, 4)), Num(SubSeq(s, 6, 7)), Num(SubSeq(s, 9, 10)))

MonthAbbr == <<"Jan", "Feb", "Mar", "Apr", "May", "Jun",
               "Jul", "Aug", "Sep", "Oct", "Nov", "Dec">>

\* strftime("%b")
strftime_b(dt) == MonthAbbr[dt.month]

\* strftime("%Y")
strftime_Y(dt) == Pad(dt.year, 4)

first_day_of_current_month(current_date) == replace_day1(current_date)

\* (mutant) the previous month taken as the month number minus one
first_day_of_previous_month_NoWrap(current_date) ==
    Date(current_date.year, current_date.month - 1, 1)

first_day_of_previous_month(current_date) ==
    replace_day1(minus_one_day(first_day_of_current_month(current_date)))

\* the execution dates the window property is checked for
ExecutionDates ==
    {Date(y, m, d) : y \in FirstYear..(FirstYear + NumYears - 1), m \in 1..12, d \in 1..31}
        \cap {dt \in [year : FirstYear..(FirstYear + NumYears - 1), month : 1..12, day : 1..31] :
                dt.day <= DaysInMonth(dt.year, dt.month)}

(***************************************************************************)
(* Billing responses.  An amount is the decimal string of the response,    *)
(* held as a whole number of thousandths; float() keeps it, DECIMAL(18,2)  *)
(* rounds it to hundredths when the row is stored.                         *)
(***************************************************************************)
Group(service, amount) == [Key |-> service, Amount |-> amount]

Bucket(start, groups) == [Start |-> start, Groups |-> groups]

RespDecEC2 == [ResultsByTime |-> <<Bucket(strftime_Ymd(Date(2024, 12, 1)), <<Group("EC2", 12500)>>)>>]

RespDecEC2S3 ==
    [ResultsByTime |->
        <<Bucket(strftime_Ymd(Date(2024, 12, 1)), <<Group("EC2", 12500), Group("S3", 3004)>>)>>]

RespJanRDS == [ResultsByTime |-> <<Bucket(strftime_Ymd(Date(2025, 1, 1)), <<Group("RDS", 7006)>>)>>]

RespTwoBuckets ==
    [ResultsByTime |->
        <<Bucket(strftime_Ymd(Date(2024, 11, 1)), <<Group("EC2", 1000)>>),
          Bucket(strftime_Ymd(Date(2024, 12, 1)), <<Group("EC2", 2000)>>)>>]

RespNoBuckets == [ResultsByTime |-> <<>>]

Responses == {RespDecEC2, RespDecEC2S3, RespJanRDS, RespTwoBuckets, RespNoBuckets}

\* the groups of every bucket, in the order the two nested loops visit them
RECURSIVE GroupsOf(_)
GroupsOf(buckets) ==
    IF buckets = <<>> THEN <<>> ELSE Head(buckets).Groups \o GroupsOf(Tail(buckets))

ServicesOf(response) ==
    {GroupsOf(response.ResultsByTime)[k].Key : k \in 1..Len(GroupsOf(response.ResultsByTime))}

\* list(service_names): the elements of the set in an order Python chooses
Orderings(S) == {q \in [1..Cardinality(S) -> S] : \A x \in S : \E k \in DOMAIN q : q[k] = x}

\* float(amount), then the DECIMAL(18, 2) column: thousandths rounded to hundredths
Decimal18_2(amount) == (amount + 5) \div 10

(***************************************************************************)
(* The store.                                                              *)
(***************************************************************************)
DimTables == {"accounts", "months", "years", "services"}

NoRows == [accounts |-> {}, months |-> {}, years |-> {}, services |-> {}, aws_costs |-> {}]

\* a cursor holding no result set: fetchone raises "no results to fetch"
NoResult == [notuples |-> TRUE, rows |-> <<>>, owner |-> ""]

VARIABLES
    committed,    \* the rows of each table that a reader of the database sees
    pending,      \* rows written in conn's open transaction, not yet committed
    aborted,      \* conn's transaction is in the failed state
    abortedBy,    \* (history) the task whose statement put it there
    seq,          \* the SERIAL sequence of each dimension table
    cursor,       \* the result the shared cursor holds; owner (history): who executed it
    closed,       \* cursor.close(); conn.close() have run
    faults,       \* store failures: left to the environment, and (history) injected
    today,        \* datetime.today() of the execution
    start_date,   \* module globals set by __main__
    end_date,
    billing,      \* what the billing API holds for each account
    task,         \* the frame of each process_account call
    main,         \* position of __main__
    run,          \* which execution of the script this is
    after         \* (history) per finished run: the fact rows and the outcomes

vars == <<committed, pending, aborted, abortedBy, seq, cursor, closed, faults, today,
          start_date, end_date, billing, task, main, run, after>>

\* the rows a statement of conn's transaction sees
View(t) == committed[t] \cup pending[t]

\* (mutant) the schema without UNIQUE on the name column
UniqueName_Missing(t, name) == FALSE

\* UNIQUE NOT NULL on the name column of a dimension table
UniqueName(t, name) == \E r \in View(t) : r.name = name

\* UNIQUE(account_id, service_id, month_id, year_id)
FactKey(r) == <<r.account_id, r.service_id, r.month_id, r.year_id>>

UniqueFact(row) == \E r \in View("aws_costs") : FactKey(r) = FactKey(row)

\* REFERENCES accounts / services / months / years
ForeignKeysHold(row) ==
    /\ \E r \in View("accounts") : r.id = row.account_id
    /\ \E r \in View("services") : r.id = row.service_id
    /\ \E r \in View("months") : r.id = row.month_id
    /\ \E r \in View("years") : r.id = row.year_id

\* a statement that raised: the server discards the transaction's work and
\* refuses statements until the transaction ends
Raised(exc, sq) == [exc |-> exc, pending |-> NoRows, seq |-> sq, cursor |-> NoResult]

Executed(pd, sq, cur) == [exc |-> "", pending |-> pd, seq |-> sq, cursor |-> cur]

\* INSERT INTO {table} ({column}) VALUES (%s) ON CONFLICT ({column}) DO NOTHING
InsertOnConflictDoNothing(t, name, by) ==
    IF UniqueName(t, name)
    THEN Executed(pending, [seq EXCEPT ![t] = @ + 1], NoResult)
    ELSE Executed([pending EXCEPT ![t] = @ \cup {[id |-> seq[t], name |-> name, by |-> by]}],
                  [seq EXCEPT ![t] = @ + 1], NoResult)

\* SELECT <id> FROM <table> WHERE <name> = %s
SelectId(t, name, by) ==
    Executed(pending, seq,
             [notuples |-> FALSE,
              rows |-> IF UniqueName(t, name)
                       THEN <<(CHOOSE r \in View(t) : r.name = name).id>> ELSE <<>>,
              owner |-> by])

\* INSERT INTO <table> (<name>) VALUES (%s) RETURNING <id>
InsertReturning(t, name, by) ==
    IF UniqueName(t, name)
    THEN Raised("UniqueViolation", [seq EXCEPT ![t] = @ + 1])
    ELSE Executed([pending EXCEPT ![t] = @ \cup {[id |-> seq[t], name |-> name, by |-> by]}],
                  [seq EXCEPT ![t] = @ + 1],
                  [notuples |-> FALSE, rows |-> <<seq[t]>>, owner |-> by])

\* (mutant) ON CONFLICT (...) DO UPDATE SET cost = EXCLUDED.cost
InsertCost_Overwrite(row) ==
    IF UniqueFact(row)
    THEN Executed([pending EXCEPT !.aws_costs =
                      {r \in View("aws_costs") : FactKey(r) # FactKey(row)} \cup {row}],
                  seq, NoResult)
    ELSE IF ~ForeignKeysHold(row) THEN Raised("ForeignKeyViolation", seq)
    ELSE Executed([pending EXCEPT !.aws_costs = @ \cup {row}], seq, NoResult)

\* INSERT INTO aws_costs (...) VALUES (...) ON CONFLICT (...) DO NOTHING
InsertCost(row) ==
    IF UniqueFact(row) THEN Executed(pending, seq, NoResult)
    ELSE IF ~ForeignKeysHold(row) THEN Raised("ForeignKeyViolation", seq)
    ELSE Executed([pending EXCEPT !.aws_costs = @ \cup {row}], seq, NoResult)

\* cursor.execute of one statement: refused in a failed transaction, may fail in the store
Execute(stmt, fault) ==
    IF aborted THEN Raised("InFailedSqlTransaction", seq)
    ELSE IF fault THEN Raised("OperationalError", seq)
    ELSE stmt

\* whether the statement being executed fails in the store
FaultChoices == IF faults.left > 0 THEN {FALSE, TRUE} ELSE {FALSE}

NoFaults(left) == [left |-> left, injected |-> 0]

(***************************************************************************)
(* process_account: the frame of one call and its control flow.            *)
(***************************************************************************)
NewTask ==
    [pc |-> "idle", attempt |-> 0, calls |-> 0, slept |-> <<>>, fetched |-> FALSE,
     response |-> RespNoBuckets, req |-> <<>>, month_label |-> "", year_label |-> <<>>,
     month_id |-> 0, year_id |-> 0, table |-> "", values |-> <<>>, i |-> 0, g |-> 0,
     service_id |-> 0, account_id |-> 0, cost_data |-> <<>>, exc |-> "",
     touched |-> FALSE, blame |-> ""]

Terminal(a) == task[a].pc \in {"done", "failed"}

\* an exception reaches `except Exception as e` of process_account (or the
\* `return` after the last failed attempt): the call ends
Fail(fr, exc) == [fr EXCEPT !.pc = "failed", !.exc = exc]

\* the same for an exception that cursor.execute raised in task a.  blame (history):
\* the task whose statement failed first in the transaction that refused this one
FailExecute(a, fr, exc) ==
    [Fail(fr, exc) EXCEPT !.blame = IF aborted THEN abortedBy ELSE a]

Groups(fr) == GroupsOf(fr.response.ResultsByTime)

\* batch_insert(table, column, values) is entered
StartBatch(fr, table, values) ==
    [fr EXCEPT !.table = table, !.values = values,
               !.i = IF values = <<>> THEN 0 ELSE 1,
               !.pc = IF values = <<>> THEN "bi_commit" ELSE "bi_exec"]

\* get_or_insert_<table>(name) is entered
StartGetOrInsert(fr, table) == [fr EXCEPT !.table = table, !.pc = "goi_select"]

\* cursor.executemany(INSERT INTO aws_costs ..., cost_data) is entered
StartUpsert(fr) ==
    [fr EXCEPT !.table = "aws_costs", !.values = <<>>,
               !.i = IF fr.cost_data = <<>> THEN 0 ELSE 1,
               !.pc = IF fr.cost_data = <<>> THEN "up_commit" ELSE "up_exec"]

\* the statement after a batch_insert call returns
AfterBatch(fr) ==
    CASE fr.table = "months" -> StartBatch(fr, "years", <<fr.year_label>>)
      [] fr.table = "years" -> StartGetOrInsert(fr, "months")
      [] fr.table = "services" ->
            IF Groups(fr) = <<>> THEN StartUpsert(fr)
            ELSE StartGetOrInsert([fr EXCEPT !.g = 1], "services")

\* the name a get_or_insert_<table> call is made with
GetOrInsertName(a, fr) ==
    CASE fr.table = "months" -> fr.month_label
      [] fr.table = "years" -> fr.year_label
      [] fr.table = "services" -> Groups(fr)[fr.g].Key
      [] fr.table = "accounts" -> a

\* (mutant) the amount read from the first group instead of the group of the iteration
AfterGetOrInsert_FirstAmount(fr, id, order) ==
    CASE fr.table = "months" -> StartGetOrInsert([fr EXCEPT !.month_id = id], "years")
      [] fr.table = "years" -> StartBatch([fr EXCEPT !.year_id = id], "services", order)
      [] fr.table = "services" -> StartGetOrInsert([fr EXCEPT !.service_id = id], "accounts")
      [] fr.table = "accounts" ->
            LET cost == Groups(fr)[1].Amount
                fr2 == [fr EXCEPT !.account_id = id,
                                  !.cost_data = Append(@, <<id, fr.service_id, fr.month_id,
                                                            fr.year_id, cost>>)]
            IN  IF fr.g < Len(Groups(fr))
                THEN StartGetOrInsert([fr2 EXCEPT !.g = @ + 1], "services")
                ELSE StartUpsert(fr2)

\* the statement after a get_or_insert_<table> call returns id
AfterGetOrInsert(fr, id, order) ==
    CASE fr.table = "months" -> StartGetOrInsert([fr EXCEPT !.month_id = id], "years")
      [] fr.table = "years" -> StartBatch([fr EXCEPT !.year_id = id], "services", order)
      [] fr.table = "services" -> StartGetOrInsert([fr EXCEPT !.service_id = id], "accounts")
      [] fr.table = "accounts" ->
            LET cost == Groups(fr)[fr.g].Amount
                fr2 == [fr EXCEPT !.account_id = id,
                                  !.cost_data = Append(@, <<id, fr.service_id, fr.month_id,
                                                            fr.year_id, cost>>)]
            IN  IF fr.g < Len(Groups(fr))
                THEN StartGetOrInsert([fr2 EXCEPT !.g = @ + 1], "services")
                ELSE StartUpsert(fr2)

\* the row one tuple of cost_data becomes
CostRow(t, by) ==
    [account_id |-> t[1], service_id |-> t[2], month_id |-> t[3], year_id |-> t[4],
     cost |-> Decimal18_2(t[5]), by |-> by]

\* the effect of a statement's outcome on the connection and the cursor
Apply(a, out, fault) ==
    /\ pending' = out.pending
    /\ seq' = out.seq
    /\ cursor' = out.cursor
    /\ aborted' = (out.exc # "")
    /\ abortedBy' = IF out.exc = "" THEN "" ELSE IF aborted THEN abortedBy ELSE a
    /\ faults' = IF fault /\ ~aborted
                 THEN [left |-> faults.left - 1, injected |-> faults.injected + 1]
                 ELSE faults

\* conn.commit(): the transaction's rows become visible; a failed transaction ends empty
Commit ==
    /\ committed' = [t \in DOMAIN committed |-> committed[t] \cup pending[t]]
    /\ pending' = NoRows
    /\ aborted' = FALSE
    /\ abortedBy' = ""

\* conn.rollback()
Rollback ==
    /\ pending' = NoRows
    /\ aborted' = FALSE
    /\ abortedBy' = ""

Touch(fr) == [fr EXCEPT !.touched = TRUE]

(***************************************************************************)
(* The steps of process_account(a).                                        *)
(***************************************************************************)
\* (mutant) `if attempt < retries`: a sleep and one more call after the third failure
fetch_attempt_OneMore(a) ==
    /\ task[a].pc = "fetch"
    /\ \E ok \in BOOLEAN :
          LET fr == [task[a] EXCEPT !.calls = @ + 1] IN
          task' = [task EXCEPT ![a] =
             IF ok THEN [fr EXCEPT !.pc = "normalize", !.fetched = TRUE,
                                   !.response = billing[a],
                                   !.req = <<start_date, end_date>>]
             ELSE IF fr.attempt < retries
                  THEN [fr EXCEPT !.attempt = @ + 1, !.slept = Append(@, 2 ^ fr.attempt)]
                  ELSE Fail(fr, "FetchExhausted")]
    /\ UNCHANGED <<committed, pending, aborted, abortedBy, seq, cursor, closed, faults,
                   today, start_date, end_date, billing, main, run, after>>

\* (mutant) no `return` after the last failed attempt: the run goes on to the store
fetch_attempt_NoReturn(a) ==
    /\ task[a].pc = "fetch"
    /\ \E ok \in BOOLEAN :
          LET fr == [task[a] EXCEPT !.calls = @ + 1] IN
          task' = [task EXCEPT ![a] =
             IF ok THEN [fr EXCEPT !.pc = "normalize", !.fetched = TRUE,
                                   !.response = billing[a],
                                   !.req = <<start_date, end_date>>]
             ELSE IF fr.attempt < retries - 1
                  THEN [fr EXCEPT !.attempt = @ + 1, !.slept = Append(@, 2 ^ fr.attempt)]
                  ELSE [fr EXCEPT !.pc = "normalize", !.response = billing[a]]]
    /\ UNCHANGED <<committed, pending, aborted, abortedBy, seq, cursor, closed, faults,
                   today, start_date, end_date, billing, main, run, after>>

\* (mutant) `while True` around the loop: after the third failure the attempts start over
fetch_attempt_Forever(a) ==
    /\ task[a].pc = "fetch"
    /\ \E ok \in BOOLEAN :
          LET fr == [task[a] EXCEPT !.calls = @ + 1] IN
          task' = [task EXCEPT ![a] =
             IF ok THEN [fr EXCEPT !.pc = "normalize", !.fetched = TRUE,
                                   !.response = billing[a],
                                   !.req = <<start_date, end_date>>]
             ELSE IF fr.attempt < retries - 1
                  THEN [fr EXCEPT !.attempt = @ + 1, !.slept = Append(@, 2 ^ fr.attempt)]
                  ELSE [fr EXCEPT !.attempt = 0, !.calls = 0, !.slept = <<>>]]
    /\ UNCHANGED <<committed, pending, aborted, abortedBy, seq, cursor, closed, faults,
                   today, start_date, end_date, billing, main, run, after>>

\* (mutant) time.sleep(2 * attempt): a linear backoff
fetch_attempt_Linear(a) ==
    /\ task[a].pc = "fetch"
    /\ \E ok \in BOOLEAN :
          LET fr == [task[a] EXCEPT !.calls = @ + 1] IN
          task' = [task EXCEPT ![a] =
             IF ok THEN [fr EXCEPT !.pc = "normalize", !.fetched = TRUE,
                                   !.response = billing[a],
                                   !.req = <<start_date, end_date>>]
             ELSE IF fr.attempt < retries - 1
                  THEN [fr EXCEPT !.attempt = @ + 1, !.slept = Append(@, 2 * fr.attempt)]
                  ELSE Fail(fr, "FetchExhausted")]
    /\ UNCHANGED <<committed, pending, aborted, abortedBy, seq, cursor, closed, faults,
                   today, start_date, end_date, billing, main, run, after>>

\* one attempt of client.get_cost_and_usage, with the sleep that follows a failure
fetch_attempt(a) ==
    /\ task[a].pc = "fetch"
    /\ \E ok \in BOOLEAN :
          LET fr == [task[a] EXCEPT !.calls = @ + 1] IN
          task' = [task EXCEPT ![a] =
             IF ok THEN [fr EXCEPT !.pc = "normalize", !.fetched = TRUE,
                                   !.response = billing[a],
                                   !.req = <<start_date, end_date>>]
             ELSE IF fr.attempt < retries - 1
                  THEN [fr EXCEPT !.attempt = @ + 1, !.slept = Append(@, 2 ^ fr.attempt)]
                  ELSE Fail(fr, "FetchExhausted")]
    /\ UNCHANGED <<committed, pending, aborted, abortedBy, seq, cursor, closed, faults,
                   today, start_date, end_date, billing, main, run, after>>

\* period_start, month_label, year_label; then batch_insert('months', ...) is entered.
\* The retry loop's locals are dead from here on and are dropped from the frame.
normalize(a) ==
    /\ task[a].pc = "normalize"
    /\ LET fr == task[a] IN
       task' = [task EXCEPT ![a] =
          IF fr.response.ResultsByTime = <<>> THEN Fail(fr, "IndexError")
          ELSE LET period_start == fr.response.ResultsByTime[1].Start
                   dt == strptime_Ymd(period_start)
               IN  StartBatch([fr EXCEPT !.month_label = strftime_b(dt),
                                         !.year_label = strftime_Y(dt),
                                         !.attempt = 0, !.calls = 0, !.slept = <<>>],
                              "months", <<strftime_b(dt)>>)]
    /\ UNCHANGED <<committed, pending, aborted, abortedBy, seq, cursor, closed, faults,
                   today, start_date, end_date, billing, main, run, after>>

\* batch_insert: one item of cursor.executemany
batch_insert_execute(a) ==
    /\ task[a].pc = "bi_exec"
    /\ \E fault \in FaultChoices :
          LET fr == task[a]
              out == Execute(InsertOnConflictDoNothing(fr.table, fr.values[fr.i], a), fault)
          IN  /\ Apply(a, out, fault)
              /\ task' = [task EXCEPT ![a] = Touch(
                    IF out.exc # "" THEN [fr EXCEPT !.pc = "bi_rollback"]
                    ELSE IF fr.i < Len(fr.values) THEN [fr EXCEPT !.i = @ + 1]
                    ELSE [fr EXCEPT !.pc = "bi_commit"])]
    /\ UNCHANGED <<committed, closed, today, start_date, end_date, billing, main, run, after>>

\* batch_insert: conn.commit()
batch_insert_commit(a) ==
    /\ task[a].pc = "bi_commit"
    /\ Commit
    /\ task' = [task EXCEPT ![a] = Touch(AfterBatch(task[a]))]
    /\ UNCHANGED <<seq, cursor, closed, faults, today, start_date, end_date, billing,
                   main, run, after>>

\* (mutant) the handler of batch_insert runs the executemany again after the rollback
batch_insert_rollback_Retry(a) ==
    /\ task[a].pc = "bi_rollback"
    /\ Rollback
    /\ task' = [task EXCEPT ![a] = Touch([task[a] EXCEPT !.pc = "bi_exec", !.i = 1])]
    /\ UNCHANGED <<committed, seq, cursor, closed, faults, today, start_date, end_date,
                   billing, main, run, after>>

\* batch_insert: except Exception: conn.rollback(); the caller goes on
batch_insert_rollback(a) ==
    /\ task[a].pc = "bi_rollback"
    /\ Rollback
    /\ task' = [task EXCEPT ![a] = Touch(AfterBatch(task[a]))]
    /\ UNCHANGED <<committed, seq, cursor, closed, faults, today, start_date, end_date,
                   billing, main, run, after>>

\* get_or_insert_*: cursor.execute(SELECT ...)
get_or_insert_select(a) ==
    /\ task[a].pc = "goi_select"
    /\ \E fault \in FaultChoices :
          LET fr == task[a]
              out == Execute(SelectId(fr.table, GetOrInsertName(a, fr), a), fault)
          IN  /\ Apply(a, out, fault)
              /\ task' = [task EXCEPT ![a] = Touch(
                    IF out.exc # "" THEN FailExecute(a, fr, out.exc)
                    ELSE [fr EXCEPT !.pc = "goi_fetch"])]
    /\ UNCHANGED <<committed, closed, today, start_date, end_date, billing, main, run, after>>

\* get_or_insert_*: result = cursor.fetchone(); if result: return result[0]
get_or_insert_fetchone(a) ==
    /\ task[a].pc = "goi_fetch"
    /\ \E order \in Orderings(ServicesOf(task[a].response)) :
          LET fr == task[a] IN
          /\ task' = [task EXCEPT ![a] = Touch(
                IF cursor.notuples THEN Fail(fr, "ProgrammingError")
                ELSE IF cursor.rows = <<>> THEN [fr EXCEPT !.pc = "goi_insert"]
                ELSE AfterGetOrInsert(fr, Head(cursor.rows), order))]
          /\ cursor' = IF cursor.notuples \/ cursor.rows = <<>> THEN cursor
                       ELSE [cursor EXCEPT !.rows = Tail(@)]
    /\ UNCHANGED <<committed, pending, aborted, abortedBy, seq, closed, faults, today,
                   start_date, end_date, billing, main, run, after>>

\* get_or_insert_*: cursor.execute(INSERT ... RETURNING ...)
get_or_insert_insert(a) ==
    /\ task[a].pc = "goi_insert"
    /\ \E fault \in FaultChoices :
          LET fr == task[a]
              out == Execute(InsertReturning(fr.table, GetOrInsertName(a, fr), a), fault)
          IN  /\ Apply(a, out, fault)
              /\ task' = [task EXCEPT ![a] = Touch(
                    IF out.exc # "" THEN FailExecute(a, fr, out.exc)
                    ELSE [fr EXCEPT !.pc = "goi_commit"])]
    /\ UNCHANGED <<committed, closed, today, start_date, end_date, billing, main, run, after>>

\* get_or_insert_*: conn.commit()
get_or_insert_commit(a) ==
    /\ task[a].pc = "goi_commit"
    /\ Commit
    /\ task' = [task EXCEPT ![a] = Touch([task[a] EXCEPT !.pc = "goi_return"])]
    /\ UNCHANGED <<seq, cursor, closed, faults, today, start_date, end_date, billing,
                   main, run, after>>

\* get_or_insert_*: return cursor.fetchone()[0]
get_or_insert_return(a) ==
    /\ task[a].pc = "goi_return"
    /\ \E order \in Orderings(ServicesOf(task[a].response)) :
          LET fr == task[a] IN
          /\ task' = [task EXCEPT ![a] = Touch(
                IF cursor.notuples THEN Fail(fr, "ProgrammingError")
                ELSE IF cursor.rows = <<>> THEN Fail(fr, "TypeError")
                ELSE AfterGetOrInsert(fr, Head(cursor.rows), order))]
          /\ cursor' = IF cursor.notuples \/ cursor.rows = <<>> THEN cursor
                       ELSE [cursor EXCEPT !.rows = Tail(@)]
    /\ UNCHANGED <<committed, pending, aborted, abortedBy, seq, closed, faults, today,
                   start_date, end_date, billing, main, run, after>>

\* the fact upsert: one item of cursor.executemany(INSERT INTO aws_costs ...)
upsert_execute(a) ==
    /\ task[a].pc = "up_exec"
    /\ \E fault \in FaultChoices :
          LET fr == task[a]
              out == Execute(InsertCost(CostRow(fr.cost_data[fr.i], a)), fault)
          IN  /\ Apply(a, out, fault)
              /\ task' = [task EXCEPT ![a] = Touch(
                    IF out.exc # "" THEN FailExecute(a, fr, out.exc)
                    ELSE IF fr.i < Len(fr.cost_data) THEN [fr EXCEPT !.i = @ + 1]
                    ELSE [fr EXCEPT !.pc = "up_commit"])]
    /\ UNCHANGED <<committed, closed, today, start_date, end_date, billing, main, run, after>>

\* the fact upsert: conn.commit(), then "stored successfully"
upsert_commit(a) ==
    /\ task[a].pc = "up_commit"
    /\ Commit
    /\ task' = [task EXCEPT ![a] = Touch([task[a] EXCEPT !.pc = "done"])]
    /\ UNCHANGED <<seq, cursor, closed, faults, today, start_date, end_date, billing,
                   main, run, after>>

(***************************************************************************)
(* __main__.                                                               *)
(***************************************************************************)
\* the reporting window, then executor.map(process_account, aws_accounts)
main_start ==
    /\ main = "init"
    /\ start_date' = strftime_Ymd(first_day_of_previous_month(today))
    /\ end_date' = strftime_Ymd(first_day_of_current_month(today))
    /\ task' = [a \in Accounts |-> [task[a] EXCEPT !.pc = "fetch"]]
    /\ main' = "pool"
    /\ UNCHANGED <<committed, pending, aborted, abortedBy, seq, cursor, closed, faults,
                   today, billing, run, after>>

\* (mutant) the pool is not waited for: executor.shutdown(wait=False)
main_close_NoWait ==
    /\ main = "pool"
    /\ closed' = TRUE
    /\ pending' = NoRows
    /\ aborted' = FALSE
    /\ abortedBy' = ""
    /\ cursor' = NoResult
    /\ main' = "completed"
    /\ after' = Append(after, [aws_costs |-> committed.aws_costs,
                               pc |-> [a \in Accounts |-> task[a].pc],
                               fetched |-> [a \in Accounts |-> task[a].fetched]])
    /\ UNCHANGED <<committed, seq, faults, today, start_date, end_date, billing, task, run>>

\* leaving the `with` block waits for every task; cursor.close(); conn.close()
main_close ==
    /\ main = "pool"
    /\ \A a \in Accounts : Terminal(a)
    /\ closed' = TRUE
    /\ pending' = NoRows
    /\ aborted' = FALSE
    /\ abortedBy' = ""
    /\ cursor' = NoResult
    /\ main' = "completed"
    /\ after' = Append(after, [aws_costs |-> committed.aws_costs,
                               pc |-> [a \in Accounts |-> task[a].pc],
                               fetched |-> [a \in Accounts |-> task[a].fetched]])
    /\ UNCHANGED <<committed, seq, faults, today, start_date, end_date, billing, task, run>>

\* the script is executed again: a new process, connection and cursor, the same
\* database, the same window and the same billing data
run_again ==
    /\ main = "completed"
    /\ run + 1 \in Runs
    /\ run' = run + 1
    /\ main' = "init"
    /\ closed' = FALSE
    /\ task' = [a \in Accounts |-> NewTask]
    /\ start_date' = <<>>
    /\ end_date' = <<>>
    /\ UNCHANGED <<committed, pending, aborted, abortedBy, seq, cursor, faults, today,
                   billing, after>>

(***************************************************************************)
(* Specifications.                                                         *)
(***************************************************************************)
\* the state after the module-level code: connected, schema created and committed
InitStore ==
    /\ committed = NoRows
    /\ pending = NoRows
    /\ aborted = FALSE
    /\ abortedBy = ""
    /\ seq = [t \in DimTables |-> 1]
    /\ cursor = NoResult
    /\ closed = FALSE
    /\ task = [a \in Accounts |-> NewTask]
    /\ main = "init"
    /\ run = 1
    /\ after = <<>>
    /\ start_date = <<>>
    /\ end_date = <<>>

Step(a) ==
    \/ fetch_attempt(a)
    \/ normalize(a)
    \/ batch_insert_execute(a)
    \/ batch_insert_commit(a)
    \/ batch_insert_rollback(a)
    \/ get_or_insert_select(a)
    \/ get_or_insert_fetchone(a)
    \/ get_or_insert_insert(a)
    \/ get_or_insert_commit(a)
    \/ get_or_insert_return(a)
    \/ upsert_execute(a)
    \/ upsert_commit(a)

\* the billing data of the two accounts and the store failures to expect
Config(first, second, f) ==
    [billing |-> [a \in Accounts |-> IF a = aws_accounts[1] THEN first ELSE second],
     faults |-> f]

\* the same month and service with store failures; then, with a reliable store:
\* a shared month, disjoint dimension values, several buckets beside none
Configs ==
    {Config(RespDecEC2, RespDecEC2, MaxFaults),
     Config(RespDecEC2S3, RespDecEC2, 0),
     Config(RespDecEC2, RespJanRDS, 0),
     Config(RespTwoBuckets, RespNoBuckets, 0)}

\* one execution of the script against an empty database
Init ==
    /\ InitStore
    /\ today = Date(2025, 1, 15)
    /\ \E c \in Configs : billing = c.billing /\ faults = NoFaults(c.faults)

Next ==
    \/ main_start
    \/ \E a \in Accounts : Step(a)
    \/ main_close

Spec == Init /\ [][Next]_vars

\* Every worker thread of the pool is scheduled again and again, and each call it
\* makes returns or raises; __main__ goes on when it can.
Fairness ==
    /\ WF_vars(main_start)
    /\ WF_vars(main_close)
    /\ \A a \in Accounts : WF_vars(Step(a))

\* store failures met by a task that has the store to itself; then, with a reliable
\* store, the billing data of Configs
InitFair ==
    /\ InitStore
    /\ today = Date(2025, 1, 15)
    /\ \E c \in {Config(RespDecEC2, RespNoBuckets, MaxFaults),
                  Config(RespDecEC2S3, RespDecEC2, 0),
                  Config(RespDecEC2, RespJanRDS, 0),
                  Config(RespTwoBuckets, RespNoBuckets, 0)} :
          billing = c.billing /\ faults = NoFaults(c.faults)

SpecFair == InitFair /\ [][Next]_vars /\ Fairness

\* two executions one after the other: the same billing data, a reliable store
InitTwice ==
    /\ InitStore
    /\ today = Date(2025, 1, 15)
    /\ billing = Config(RespDecEC2, RespDecEC2, 0).billing
    /\ faults = NoFaults(0)

NextTwice ==
    \/ main_start
    \/ \E a \in Accounts : Step(a)
    \/ main_close
    \/ run_again

SpecTwice == InitTwice /\ [][NextTwice]_vars

\* the reporting window of every execution date, up to the remote calls made with it
InitWindow ==
    /\ InitStore
    /\ today \in ExecutionDates
    /\ billing = Config(RespDecEC2, RespJanRDS, 0).billing
    /\ faults = NoFaults(0)

NextWindow ==
    \/ main_start
    \/ \E a \in Accounts : fetch_attempt(a)

SpecWindow == InitWindow /\ [][NextWindow]_vars

\* a response of two buckets beside a response of one, with store failures
InitBuckets ==
    /\ InitStore
    /\ today = Date(2025, 1, 15)
    /\ billing = Config(RespTwoBuckets, RespDecEC2, MaxFaults).billing
    /\ faults = NoFaults(MaxFaults)

SpecBuckets == InitBuckets /\ [][Next]_vars

(***************************************************************************)
(* What the properties speak about.                                        *)
(***************************************************************************)
\* the names under which table t of tables holds id
NamesOf(tables, t, id) == {r.name : r \in {x \in tables[t] : x.id = id}}

\* the fact rows of tables with every id replaced by the names it stands for
NamedFacts(tables) ==
    {[account |-> NamesOf(tables, "accounts", r.account_id),
      service |-> NamesOf(tables, "services", r.service_id),
      month |-> NamesOf(tables, "months", r.month_id),
      year |-> NamesOf(tables, "years", r.year_id),
      cost |-> r.cost] : r \in tables.aws_costs}

\* the natural keys of table t of tables
Keys(tables, t) == {r.name : r \in tables[t]}

\* no two rows of table t of tables carry the same natural key, nor the same id
NoDuplicate(tables, t) ==
    \A r1, r2 \in tables[t] : (r1.name = r2.name \/ r1.id = r2.id) => r1 = r2

\* no two fact rows of tables carry the same (account, service, month, year)
NoDuplicateFact(tables) ==
    \A r1, r2 \in tables.aws_costs : FactKey(r1) = FactKey(r2) => r1 = r2

Visible == [t \in DOMAIN committed |-> View(t)]

\* a run of account a alone on an empty database, with billing data resp, stores:
\* the labels of the first bucket, and per service the amount of its first group
FirstGroupOf(resp, service) ==
    LET gs == GroupsOf(resp.ResultsByTime)
    IN  gs[CHOOSE k \in 1..Len(gs) : gs[k].Key = service /\ \A j \in 1..(k - 1) : gs[j].Key # service]

ExpectedFacts(a, resp) ==
    IF resp.ResultsByTime = <<>> THEN {}
    ELSE LET dt == strptime_Ymd(resp.ResultsByTime[1].Start) IN
         {[account |-> {a}, service |-> {s}, month |-> {strftime_b(dt)},
           year |-> {strftime_Y(dt)}, cost |-> Decimal18_2(FirstGroupOf(resp, s).Amount)]
            : s \in ServicesOf(resp)}

ExpectedKeys(A, t) ==
    LET with == {a \in A : billing[a].ResultsByTime # <<>>}
        Dt(a) == strptime_Ymd(billing[a].ResultsByTime[1].Start)
    IN  CASE t = "accounts" -> {a \in with : ServicesOf(billing[a]) # {}}
          [] t = "services" -> UNION {ServicesOf(billing[a]) : a \in with}
          [] t = "months" -> {strftime_b(Dt(a)) : a \in with}
          [] t = "years" -> {strftime_Y(Dt(a)) : a \in with}

\* the database holds what the accounts of A store when each runs alone, one after
\* the other
HoldsSequentialResultOf(A) ==
    /\ NamedFacts(committed) = UNION {ExpectedFacts(a, billing[a]) : a \in A}
    /\ \A t \in DimTables : Keys(committed, t) = ExpectedKeys(A, t) /\ NoDuplicate(committed, t)
    /\ NoDuplicateFact(committed)

Exhausted(a) == task[a].pc = "failed" /\ task[a].exc = "FetchExhausted"

\* the rows of any table that task a wrote, committed or not
RowsBy(a) == UNION {{r \in View(t) : r.by = a} : t \in DOMAIN committed}

\* two responses name no common service, month or year
SharesNoDimension(r1, r2) ==
    \/ r1.ResultsByTime = <<>>
    \/ r2.ResultsByTime = <<>>
    \/ LET d1 == strptime_Ymd(r1.ResultsByTime[1].Start)
           d2 == strptime_Ymd(r2.ResultsByTime[1].Start)
       IN  /\ ServicesOf(r1) \cap ServicesOf(r2) = {}
           /\ strftime_b(d1) # strftime_b(d2)
           /\ strftime_Y(d1) # strftime_Y(d2)

(***************************************************************************)
(* C1.  Idempotence of a full run: when the script has run to completion   *)
(* twice with the same billing responses (every account's fetch succeeded  *)
(* in both runs), the fact rows after the second run are those after the   *)
(* first, in set and in number, and no key appears twice.                  *)
(***************************************************************************)
C1_SecondRunInsertsNothing ==
    (/\ Len(after) = 2
     /\ \A a \in Accounts : after[1].fetched[a] /\ after[2].fetched[a])
    => /\ after[2].aws_costs = after[1].aws_costs
       /\ Cardinality(after[2].aws_costs) = Cardinality(after[1].aws_costs)
       /\ NoDuplicateFact(committed)

(***************************************************************************)
(* C2.  The fact table holds at most one row per (account, service, month, *)
(* year), committed or in the open transaction; a committed fact row stays *)
(* as it is; and a later ingestion of a combination that has a row leaves  *)
(* the row's cost as it was, whatever amount it carries.                   *)
(***************************************************************************)
C2_OneFactPerKeyNeverOverwritten ==
    /\ [](NoDuplicateFact(committed) /\ NoDuplicateFact(Visible))
    /\ [][/\ committed.aws_costs \subseteq committed'.aws_costs
          /\ \A r \in View("aws_costs") : \A r2 \in (View("aws_costs"))' :
                FactKey(r2) = FactKey(r) => r2.cost = r.cost]_vars

\* a batch that carried two amounts for one combination is committed: the row
\* holds the first amount
C2_Witness ==
    \E a \in Accounts :
       /\ task[a].pc = "done"
       /\ Len(task[a].cost_data) = 2
       /\ SubSeq(task[a].cost_data[1], 1, 4) = SubSeq(task[a].cost_data[2], 1, 4)
       /\ task[a].cost_data[1][5] # task[a].cost_data[2][5]
       /\ \E r \in committed.aws_costs :
             /\ FactKey(r) = SubSeq(task[a].cost_data[1], 1, 4)
             /\ r.cost = Decimal18_2(task[a].cost_data[1][5])

(***************************************************************************)
(* C3.  Under any interleaving, no dimension table holds two rows with the *)
(* same natural key, committed or in the open transaction, and a committed *)
(* dimension row is never updated or deleted.                              *)
(***************************************************************************)
C3_DimensionsUniqueAndStable ==
    /\ [](\A t \in DimTables : NoDuplicate(committed, t) /\ NoDuplicate(Visible, t))
    /\ [][\A t \in DimTables : committed[t] \subseteq committed'[t]]_vars

\* two tasks have tried to insert the same key; the store refused the second
C3_Witness ==
    \E a \in Accounts :
       /\ task[a].exc = "UniqueViolation"
       /\ \E r \in committed[task[a].table] : r.name = GetOrInsertName(a, task[a]) /\ r.by # a

(***************************************************************************)
(* C4.  With a reliable store, two invocations of get_or_insert_month with *)
(* the same month label, by tasks whose steps interleave, return the same  *)
(* surrogate id, and                                                       *)
(* neither fails because of the race: neither ends in a unique violation   *)
(* on the key, nor in a fetch of the inserted id that finds no row.        *)
(***************************************************************************)
\* task a has called get_or_insert_month: it is in the call, failed in it, or returned
InvokedMonthResolver(a) ==
    \/ task[a].month_id # 0
    \/ /\ task[a].table = "months"
       /\ task[a].pc \in {"goi_fetch", "goi_insert", "goi_commit", "goi_return", "failed"}

C4_ResolverSafeUnderRace ==
    \A a, b \in Accounts :
       (/\ a # b
        /\ faults.injected = 0
        /\ InvokedMonthResolver(a)
        /\ InvokedMonthResolver(b)
        /\ task[a].month_label = task[b].month_label)
       => /\ ~(/\ task[a].pc = "failed"
               /\ task[a].table = "months"
               /\ task[a].exc \in {"UniqueViolation", "TypeError"})
          /\ (task[a].month_id # 0 /\ task[b].month_id # 0)
             => task[a].month_id = task[b].month_id

(***************************************************************************)
(* C5.  The billing fetch of one account makes at most 3 remote calls; a   *)
(* call that succeeds ends the loop at once with the response, after one   *)
(* backoff delay per failed call (2 delays when the third call succeeds);  *)
(* no call or delay follows a success.                                     *)
(***************************************************************************)
C5_FetchRetryBounded ==
    \A a \in Accounts :
       /\ task[a].calls <= retries
       /\ task[a].pc = "fetch" =>
             ~task[a].fetched /\ task[a].calls = task[a].attempt
             /\ Len(task[a].slept) = task[a].calls /\ task[a].calls < retries
       /\ task[a].pc = "normalize" =>
             /\ task[a].fetched
             /\ task[a].response = billing[a]
             /\ Len(task[a].slept) = task[a].calls - 1
       /\ task[a].fetched => task[a].pc # "fetch"

\* calls 1 and 2 raised, call 3 succeeded
C5_Witness ==
    \E a \in Accounts :
       task[a].pc = "normalize" /\ task[a].calls = 3 /\ Len(task[a].slept) = 2

(***************************************************************************)
(* C6.  When the fetch of an account has failed on all 3 attempts, its run *)
(* is Failed and has performed no store operation, no dimension or fact    *)
(* row is written by it, and when the script ends with the other account   *)
(* Done the database holds what that account stores when it runs alone.    *)
(***************************************************************************)
C6_ExhaustedFetchTouchesNothing ==
    \A a \in Accounts :
       (~task[a].fetched /\ task[a].calls = retries /\ task[a].pc # "fetch")
       => /\ Exhausted(a)
          /\ ~task[a].touched
          /\ RowsBy(a) = {}
          /\ (main = "completed" /\ \A b \in Accounts \ {a} : task[b].pc = "done")
             => HoldsSequentialResultOf(Accounts \ {a})

\* one account exhausted its retries, the other stored its rows
C6_Witness ==
    /\ main = "completed"
    /\ \E a, b \in Accounts :
          Exhausted(a) /\ task[b].pc = "done" /\ committed.aws_costs # {}

(***************************************************************************)
(* C7.  Failure isolation: an error raised in one account's run turns only *)
(* that account into Failed.  A run fails on a statement refused by the    *)
(* failed transaction only if its own statement failed first, and a run    *)
(* that ends Done has all its rows committed.                              *)
(***************************************************************************)
C7_FailureIsolation ==
    \A b \in Accounts :
       /\ task[b].exc = "InFailedSqlTransaction" => task[b].blame = b
       /\ (main = "completed" /\ task[b].pc = "done")
          => ExpectedFacts(b, billing[b]) \subseteq NamedFacts(committed)

(***************************************************************************)
(* C8.  The fact upsert of one account is atomic per batch: a reader of    *)
(* the committed fact table sees rows of the batch only when every tuple   *)
(* of it has been executed, and none of them, then or later, when the      *)
(* batch write raised.                                                     *)
(***************************************************************************)
C8_BatchAtomic ==
    \A a \in Accounts :
       (\E r \in committed.aws_costs : r.by = a) => task[a].pc \in {"up_commit", "done"}

(***************************************************************************)
(* C9.  For two accounts whose responses share no service, month or year,  *)
(* every interleaving of their runs ends with the dimension and fact rows  *)
(* that running one to completion and then the other leaves.               *)
(***************************************************************************)
C9_InterleavingEqualsSequential ==
    (/\ main = "completed"
     /\ \A a \in Accounts : task[a].fetched
     /\ \A a, b \in Accounts : a # b => SharesNoDimension(billing[a], billing[b]))
    => HoldsSequentialResultOf(Accounts)

(***************************************************************************)
(* C10.  For every execution date the window starts on day 1 of the        *)
(* previous calendar month (December of the previous year in January) and  *)
(* ends on day 1 of the execution month; it is computed once and every     *)
(* account's remote call is made with that start and end.                  *)
(***************************************************************************)
C10_ReportingWindow ==
    main # "init" =>
       /\ start_date = strftime_Ymd(IF today.month = 1 THEN Date(today.year - 1, 12, 1)
                                    ELSE Date(today.year, today.month - 1, 1))
       /\ end_date = strftime_Ymd(Date(today.year, today.month, 1))
       /\ strptime_Ymd(start_date).day = 1
       /\ strptime_Ymd(end_date) = Date(today.year, today.month, 1)
       /\ \A a \in Accounts : task[a].fetched => task[a].req = <<start_date, end_date>>

\* an execution in January, on a day other than the first, whose calls were made
C10_Witness ==
    /\ main # "init"
    /\ today.month = 1 /\ today.day > 1
    /\ strptime_Ymd(start_date) = Date(today.year - 1, 12, 1)
    /\ \A a \in Accounts : task[a].fetched

(***************************************************************************)
(* C11.  For a response with one bucket whose n groups name n distinct     *)
(* services, a run that has finished its pass over the response holds n    *)
(* cost tuples, the k-th with the amount of the k-th group, and one month  *)
(* label and one year label: the month and the year of the bucket's        *)
(* period-start date.                                                      *)
(***************************************************************************)
\* task a has left the loop that builds cost_data
PassedResponse(a) == task[a].pc \in {"up_exec", "up_commit", "done"}

SingleBucketDistinct(resp) ==
    /\ Len(resp.ResultsByTime) = 1
    /\ Cardinality(ServicesOf(resp)) = Len(resp.ResultsByTime[1].Groups)

C11_NormalizationOfOneBucket ==
    \A a \in Accounts :
       (PassedResponse(a) /\ SingleBucketDistinct(task[a].response))
       => LET bucket == task[a].response.ResultsByTime[1]
              n == Len(bucket.Groups)
          IN  /\ Len(task[a].cost_data) = n
              /\ \A k \in 1..n : task[a].cost_data[k][5] = bucket.Groups[k].Amount
              /\ task[a].month_label = MonthAbbr[Num(SubSeq(bucket.Start, 6, 7))]
              /\ task[a].year_label = SubSeq(bucket.Start, 1, 4)

\* the response with EC2 12.50 and S3 3.00(4) for December 2024 has been passed
C11_Witness ==
    \E a \in Accounts :
       /\ PassedResponse(a)
       /\ task[a].response = RespDecEC2S3
       /\ Len(task[a].cost_data) = 2
       /\ task[a].cost_data[1][5] = 12500 /\ task[a].cost_data[2][5] = 3004
       /\ task[a].month_label = "Dec" /\ task[a].year_label = <<"2", "0", "2", "4">>

(***************************************************************************)
(* The stages of one account's run.                                        *)
(***************************************************************************)
Stage(fr) ==
    CASE fr.pc = "idle" -> "Start"
      [] fr.pc = "fetch" -> "Fetching"
      [] fr.pc = "normalize" -> "Normalizing"
      [] fr.pc = "done" -> "Done"
      [] fr.pc = "failed" -> "Failed"
      [] OTHER -> "Resolving&Upserting"

StageOrder == <<"Start", "Fetching", "Normalizing", "Resolving&Upserting", "Done">>

Rank(stage) == CHOOSE k \in 1..Len(StageOrder) : StageOrder[k] = stage

\* the run stays in its stage or enters the next one
StaysOrAdvances(fr, fr2) ==
    \/ Stage(fr2) = Stage(fr)
    \/ /\ Stage(fr) # "Failed" /\ Stage(fr2) # "Failed"
       /\ Rank(Stage(fr2)) = Rank(Stage(fr)) + 1

\* the run enters Failed from Fetching, its retries exhausted
FailsFromFetching(fr, fr2) ==
    /\ Stage(fr) = "Fetching" /\ Stage(fr2) = "Failed"
    /\ fr2.exc = "FetchExhausted" /\ fr2.calls = retries /\ ~fr2.fetched

\* the run enters Failed from Normalizing or Resolving&Upserting, on an exception
\* that `except Exception` of process_account caught
FailsAfterFetching(fr, fr2) ==
    /\ Stage(fr) \in {"Normalizing", "Resolving&Upserting"} /\ Stage(fr2) = "Failed"
    /\ fr2.exc \notin {"", "FetchExhausted"} /\ fr2.fetched

NoStoreOperationBeforeFetch == \A a \in Accounts : task[a].touched => task[a].fetched

RECURSIVE SumOf(_)
SumOf(q) == IF q = <<>> THEN 0 ELSE Head(q) + SumOf(Tail(q))

C13_BackoffDelays ==
    \A a \in Accounts :
       /\ \A k \in 1..Len(task[a].slept) : task[a].slept[k] = 2 ^ (k - 1)
       /\ Len(task[a].slept) <= 2
       /\ SumOf(task[a].slept) <= 3
       /\ task[a].pc = "fetch" => Len(task[a].slept) = task[a].attempt
       /\ Exhausted(a) => task[a].calls = 3 /\ task[a].slept = <<1, 2>>

\* three attempts failed: the delays taken were 1 and 2
C13_Witness ==
    \E a \in Accounts : Exhausted(a) /\ task[a].slept = <<1, 2>> /\ SumOf(task[a].slept) = 3

(***************************************************************************)
(* C14.  For a response with more than one bucket, the month and year      *)
(* labels are those of the first bucket's period-start date and no label   *)
(* of a later bucket is written; every cost tuple, from whichever bucket,  *)
(* carries the month_id and year_id resolved for them; and for each        *)
(* (account, service, month, year) of the tuples at most one fact row is   *)
(* stored, with the amount of the earliest tuple that has this key.        *)
(***************************************************************************)
\* task a has computed its labels
Normalized(a) == task[a].month_label # ""

\* the amount of the first tuple of cost_data with the key
EarliestAmount(cost_data, key) ==
    cost_data[CHOOSE k \in 1..Len(cost_data) :
                 /\ SubSeq(cost_data[k], 1, 4) = key
                 /\ \A j \in 1..(k - 1) : SubSeq(cost_data[j], 1, 4) # key][5]

C14_FirstBucketLabelsOnly ==
    \A a \in Accounts :
       (Normalized(a) /\ Len(task[a].response.ResultsByTime) > 1)
       => LET first == task[a].response.ResultsByTime[1] IN
          /\ task[a].month_label = MonthAbbr[Num(SubSeq(first.Start, 6, 7))]
          /\ task[a].year_label = SubSeq(first.Start, 1, 4)
          /\ \A r \in View("months") : r.by = a => r.name = task[a].month_label
          /\ \A r \in View("years") : r.by = a => r.name = task[a].year_label
          /\ \A k \in 1..Len(task[a].cost_data) :
                /\ task[a].cost_data[k][3] = task[a].month_id
                /\ task[a].cost_data[k][4] = task[a].year_id
          /\ \A r \in View("aws_costs") : r.by = a =>
                /\ r.cost = Decimal18_2(EarliestAmount(task[a].cost_data, FactKey(r)))
                /\ \A r2 \in View("aws_costs") : FactKey(r2) = FactKey(r) => r2 = r

(***************************************************************************)
(* Store operations of the resolve stage and their failure.                *)
(***************************************************************************)
\* this step is a step of task a
StepOf(a) == task'[a] # task[a]

\* this step is a statement of task a, at one of the positions pcs, that raised
RaisedAt(a, pcs) == StepOf(a) /\ task[a].pc \in pcs /\ aborted'

\* a run that has ended does nothing more
EndedRunsStay == \A a \in Accounts : Terminal(a) => task'[a] = task[a]

OnlyRowsOf(a) == \A t \in DOMAIN pending : \A r \in pending[t] : r.by = a

C16_TasksIsolated ==
    [][\A a \in Accounts : StepOf(a) =>
          /\ task[a].pc \in {"bi_commit", "goi_commit", "up_commit"} => OnlyRowsOf(a)
          /\ task[a].pc = "bi_rollback" => OnlyRowsOf(a)
          /\ (/\ task[a].pc \in {"goi_fetch", "goi_return"}
              /\ ~cursor.notuples
              /\ cursor.rows # <<>>) => cursor.owner = a]_vars

(***************************************************************************)
(* C17.  Every account run terminates: when the worker tasks are scheduled *)
(* fairly, whatever the remote call and the store do at each step, every   *)
(* started process_account reaches Done or Failed; it makes at most 3      *)
(* fetch attempts and passes once over the groups of its response.         *)
(***************************************************************************)
Started(a) == task[a].pc # "idle"

\* no more attempts than retries; the loop index and the tuples built never pass
\* the number of groups
BoundedWork(a) ==
    /\ task[a].calls <= retries
    /\ task[a].g <= Len(Groups(task[a]))
    /\ Len(task[a].cost_data) <= task[a].g
    /\ Len(task[a].cost_data) <= Len(Groups(task[a]))

C17_EveryRunTerminates ==
    /\ [](\A a \in Accounts : BoundedWork(a))
    /\ \A a \in Accounts : Started(a) ~> Terminal(a)

\* both runs have ended, one of them after three failed fetch attempts
C17_Witness ==
    /\ \A a \in Accounts : Terminal(a)
    /\ \E a \in Accounts : Exhausted(a) /\ task[a].calls = retries
    /\ \E a \in Accounts : task[a].pc = "done" /\ task[a].g = Len(Groups(task[a]))

(***************************************************************************)
(* C18.  The cursor and the connection are closed only when every account  *)
(* task is Done or Failed, no task performs a store operation once they    *)
(* are closed, and the script reaches "Script execution completed"         *)
(* whatever the outcomes of the accounts, also when all of them Failed.    *)
(***************************************************************************)
C18_ClosesAfterEveryTask ==
    /\ [](closed => \A a \in Accounts : Terminal(a))
    /\ [](closed <=> main = "completed")
    /\ [][closed => (task' = task /\ committed' = committed /\ pending' = pending)]_vars
    /\ <>(main = "completed")

\* the script has completed and every account ended in Failed
C18_Witness ==
    /\ main = "completed"
    /\ closed
    /\ \A a \in Accounts : task[a].pc = "failed"

(***************************************************************************)
(* C19.  Referential integrity of facts: in every committed state, each    *)
(* aws_costs row's account_id, service_id, month_id and year_id is the id  *)
(* of a row of accounts, services, months and years, and that row's        *)
(* natural key is the account, the service, the month label and the year   *)
(* label the fact was ingested for.                                        *)
(***************************************************************************)
\* the tuples of the cost_data of the task that wrote fact row r which made r
TuplesOf(r) ==
    {k \in 1..Len(task[r.by].cost_data) :
        /\ SubSeq(task[r.by].cost_data[k], 1, 4) = FactKey(r)
        /\ Decimal18_2(task[r.by].cost_data[k][5]) = r.cost}

C19_FactsReferToTheirDimensions ==
    \A r \in committed.aws_costs :
       \E k \in TuplesOf(r) :
          /\ NamesOf(committed, "accounts", r.account_id) = {r.by}
          /\ NamesOf(committed, "services", r.service_id) = {Groups(task[r.by])[k].Key}
          /\ NamesOf(committed, "months", r.month_id) = {task[r.by].month_label}
          /\ NamesOf(committed, "years", r.year_id) = {task[r.by].year_label}

=============================================================================
